---- MODULE Spec2Model ----
(***************************************************************************)
(* Prediction heads of farm/modeling/prediction_head.py.                   *)
(*                                                                         *)
(* Every head operation is a synchronous call.  A call is modelled as a    *)
(* state pair: the initial state holds the operation and the arguments the *)
(* caller passes (pc = "call"), the operation's action runs the whole      *)
(* method and leaves its result in ret, the caller-visible argument        *)
(* objects in mem and pc = "done".  The registry, the heads built and the  *)
(* save directory live in subclasses, head and disk.                       *)
(*                                                                         *)
(* Python values: a list is a sequence, a str is a sequence of one-char    *)
(* strings, None inside a list of spans is NoneSpan, a raised exception    *)
(* is the field error of ret ("none" when the call returns).               *)
(***************************************************************************)
EXTENDS Integers, Sequences, FiniteSets, TLC

VARIABLES op, args, pc, ret, mem, subclasses, head, disk

vars == <<op, args, pc, ret, mem, subclasses, head, disk>>

(***************************************************************************)
(* Bounds of the model.                                                    *)
(***************************************************************************)
MaxLen == 5        \* longest seq / mask handed to initial_token_only
MaxTokens == 3     \* most tokens in a tokenized sample
MaxBatch == 2      \* most sequences in a masked-token batch
MaxSeqLen == 2     \* most positions per sequence in a masked-token batch
QASeqLen == 7      \* length of the packed question+context sequence
QALossLen == 2     \* seq_len of the logits handed to the QA loss
MaxHeadNum == 0    \* largest head_num a head is saved under

(***************************************************************************)
(* Python built-ins the methods use.                                       *)
(***************************************************************************)
Min(a, b) == IF a < b THEN a ELSE b

Max(a, b) == IF a > b THEN a ELSE b

Range(s) == {s[i] : i \in 1..Len(s)}

SeqsUpTo(S, n) == UNION {[1..k -> S] : k \in 0..n}

\* a slice bound i of a list of length n: negative counts from the end, and the
\* result is clamped to 0..n
SliceBound(i, n) == IF i < 0 THEN (IF i + n < 0 THEN 0 ELSE i + n)
                    ELSE IF i > n THEN n ELSE i

\* list[a:b] (0-based, end exclusive)
Slice(s, a, b) == SubSeq(s, SliceBound(a, Len(s)) + 1, SliceBound(b, Len(s)))

\* whether list[i] exists (0-based; a negative i counts from the end)
IndexOk(s, i) == 0 - Len(s) <= i /\ i < Len(s)

\* list[i] for an i that exists
Index(s, i) == IF i < 0 THEN s[Len(s) + i + 1] ELSE s[i + 1]

RECURSIVE SumSeq(_)
SumSeq(s) == IF s = <<>> THEN 0 ELSE Head(s) + SumSeq(Tail(s))

IsPrefix(p, s) == Len(p) <= Len(s) /\ SubSeq(s, 1, Len(p)) = p

\* str.replace(pat, ""): every non-overlapping occurrence, left to right
RECURSIVE StrRemove(_, _)
StrRemove(s, pat) ==
    IF s = <<>> THEN <<>>
    ELSE IF IsPrefix(pat, s) THEN StrRemove(SubSeq(s, Len(pat) + 1, Len(s)), pat)
    ELSE <<Head(s)>> \o StrRemove(Tail(s), pat)

\* " ".join(list of str)
RECURSIVE JoinSpace(_)
JoinSpace(l) ==
    IF l = <<>> THEN <<>>
    ELSE IF Len(l) = 1 THEN l[1]
    ELSE l[1] \o <<" ">> \o JoinSpace(Tail(l))

\* What a call leaves: the exception raised ("none": it returned), the value
\* returned, and the locals of the method the properties speak about.
OkL(v, l) == [error |-> "none", value |-> v, locals |-> l]

Ok(v) == OkL(v, <<>>)

Raise(e) == [error |-> e, value |-> <<>>, locals |-> <<>>]

RaiseL(e, l) == [error |-> e, value |-> <<>>, locals |-> l]

Pending == [error |-> "pending", value |-> <<>>, locals |-> <<>>]

(***************************************************************************)
(* TokenClassificationHead                                                 *)
(***************************************************************************)
\* A mask filter that keeps the tokens the mask rejects.
initial_token_only_inverted(seq, initial_mask) ==
    LET n == Min(Len(seq), Len(initial_mask))
        F[i \in 0..n] == IF i = 0 THEN <<>>
                         ELSE IF ~initial_mask[i] THEN Append(F[i - 1], seq[i])
                         ELSE F[i - 1]
    IN F[n]

\* initial_token_only: zip(initial_mask, seq) stops at the shorter of the two
initial_token_only(seq, initial_mask) ==
    LET n == Min(Len(seq), Len(initial_mask))
        F[i \in 0..n] == IF i = 0 THEN <<>>
                         ELSE IF initial_mask[i] THEN Append(F[i - 1], seq[i])
                         ELSE F[i - 1]
    IN F[n]

\* label_map of the tagging task: label id (0-based) -> tag string
LabelMapNER ==
    [i \in 0..2 |-> CASE i = 0 -> <<"O">>
                      [] i = 1 -> <<"B", "-", "P">>
                      [] i = 2 -> <<"I", "-", "P">>]

\* logits_to_preds: argmax per token, word-initial filter, label_map, one list
\* per row of initial_mask.  A token's logits are the record
\* [argmax |-> label id, maxprob |-> its largest softmax probability].
TokenLogitsToPreds(logits, initial_mask, label_map) ==
    [idx \in 1..Len(initial_mask) |->
        LET preds_t == [t \in 1..Len(logits[idx]) |-> logits[idx][t].argmax]
            preds_word_id == initial_token_only(preds_t, initial_mask[idx])
        IN [w \in 1..Len(preds_word_id) |-> label_map[preds_word_id[w]]]]

\* logits_to_probs: max softmax probability per token, word-initial filter
TokenLogitsToProbs(logits, initial_mask) ==
    [idx \in 1..Len(initial_mask) |->
        LET probs_t == [t \in 1..Len(logits[idx]) |-> logits[idx][t].maxprob]
        IN initial_token_only(probs_t, initial_mask[idx])]

NoneSpan == [isNone |-> TRUE, start |-> 0, end |-> 0]

MkSpan(s, e) == [isNone |-> FALSE, start |-> s, end |-> e]

\* A continuation token that ends the span at offset + len(token), marker included.
ContinuationEndRaw(offset, token) == offset + Len(token)

\* span["end"] of a continuation token: offset + len(token.replace("##", ""))
ContinuationEnd(offset, token) == offset + Len(StrRemove(token, <<"#", "#">>))

\* The loop over one sample's (token, offset, start_of_word) triples and the
\* word_spans.append(span) after it.  span is None until the first
\* word-initial token; a continuation token met while span is None raises
\* TypeError (None["end"] = ...).
WordSpans(tokenized) ==
    LET n == Min(Len(tokenized.tokens),
                 Min(Len(tokenized.offsets), Len(tokenized.start_of_word)))
        F[i \in 0..n] ==
            IF i = 0 THEN [word_spans |-> <<>>, span |-> NoneSpan, error |-> "none"]
            ELSE LET p == F[i - 1]
                     token == tokenized.tokens[i]
                     offset == tokenized.offsets[i]
                 IN IF p.error # "none" THEN p
                    ELSE IF tokenized.start_of_word[i]
                    THEN [word_spans |-> IF p.span.isNone THEN p.word_spans
                                         ELSE Append(p.word_spans, p.span),
                          span |-> MkSpan(offset, offset + Len(token)),
                          error |-> "none"]
                    ELSE IF p.span.isNone THEN [p EXCEPT !.error = "TypeError"]
                    ELSE [p EXCEPT !.span.end = ContinuationEnd(offset, token)]
    IN IF F[n].error # "none" THEN Raise(F[n].error)
       ELSE Ok(Append(F[n].word_spans, F[n].span))

\* spans of the batch: one WordSpans per (sample, sample_preds) pair of the zip
BatchSpans(samples, preds) ==
    LET n == Min(Len(samples), Len(preds))
        each == [b \in 1..n |-> WordSpans(samples[b].tokenized)]
    IN IF \E b \in 1..n : each[b].error # "none"
       THEN Raise((each[CHOOSE b \in 1..n : each[b].error # "none"
                                             /\ \A c \in 1..(b - 1) : each[c].error = "none"]).error)
       ELSE Ok([b \in 1..n |-> each[b].value])

Contains(s, pat) == \E i \in 0..(Len(s) - Len(pat)) : SubSeq(s, i + 1, i + Len(pat)) = pat

\* farm.utils.convert_iob_to_simple_tags(preds, spans): adjacent B-/I- tags of
\* one entity type are fused into one tag and one span; "O" words are dropped.
convert_iob_to_simple_tags(preds, spans) ==
    LET n == Min(Len(preds), Len(spans))
        B == <<"B", "-">>
        I == <<"I", "-">>
        Close(p) == IF p.open
                    THEN [p EXCEPT !.tags = Append(p.tags, p.cur_tag),
                                   !.spans = Append(p.spans, p.cur_span),
                                   !.open = FALSE]
                    ELSE p
        F[i \in 0..n] ==
            IF i = 0
            THEN [tags |-> <<>>, spans |-> <<>>, open |-> FALSE,
                  cur_tag |-> <<>>, cur_span |-> NoneSpan]
            ELSE LET p == F[i - 1]
                     pred == preds[i]
                 IN IF ~(Contains(pred, B) \/ Contains(pred, I)) THEN Close(p)
                    ELSE IF Contains(pred, B)
                    THEN [Close(p) EXCEPT !.cur_tag = StrRemove(pred, B),
                                          !.cur_span = spans[i],
                                          !.open = TRUE]
                    ELSE IF p.open /\ StrRemove(pred, I) = p.cur_tag
                    THEN [p EXCEPT !.cur_span.end = spans[i].end]
                    ELSE Close(p)
    IN [tags |-> Close(F[n]).tags, spans |-> Close(F[n]).spans]

\* The records of one sequence: zip(tags, probs_seq, spans_seq) after merging
TokenSeqRecords(preds_seq, probs_seq, sample, spans_seq) ==
    LET merged == convert_iob_to_simple_tags(preds_seq, spans_seq)
        n == Min(Len(merged.tags), Min(Len(probs_seq), Len(merged.spans)))
    IN [k \in 1..n |->
           [start |-> merged.spans[k].start,
            end |-> merged.spans[k].end,
            context |-> Slice(sample.clear_text.text,
                              merged.spans[k].start, merged.spans[k].end),
            label |-> merged.tags[k],
            probability |-> probs_seq[k]]]

RECURSIVE Concat(_)
Concat(ll) == IF ll = <<>> THEN <<>> ELSE Head(ll) \o Concat(Tail(ll))

\* TokenClassificationHead.formatted_preds(logits, label_map, initial_mask, samples)
TokenFormattedPreds(logits, label_map, initial_mask, samples) ==
    LET preds == TokenLogitsToPreds(logits, initial_mask, label_map)
        probs == TokenLogitsToProbs(logits, initial_mask)
        spans == BatchSpans(samples, preds)
        n == Min(Min(Len(preds), Len(probs)), Min(Len(samples), Len(spans.value)))
    IN IF spans.error # "none" THEN Raise(spans.error)
       ELSE IF ~(Len(preds) = Len(probs) /\ Len(probs) = Len(spans.value))
       THEN Raise("AssertionError")
       ELSE OkL([task |-> "ner",
                 predictions |->
                     Concat([b \in 1..n |->
                         TokenSeqRecords(preds[b], probs[b], samples[b], spans.value[b])])],
                [preds |-> preds, probs |-> probs, spans |-> spans.value,
                 merged |-> [b \in 1..n |->
                                convert_iob_to_simple_tags(preds[b], spans.value[b])]])

(***************************************************************************)
(* Calls of the token-classification head.                                 *)
(***************************************************************************)
Alphabet == <<"a", "b", "c", "d", "e", "f", "g", "h">>

\* seq arguments: every list over two values, and the lists of distinct values
SeqChoices == SeqsUpTo({"x", "y"}, MaxLen)
              \cup {SubSeq(Alphabet, 1, k) : k \in 1..Min(MaxLen, Len(Alphabet))}

Jo == <<"J", "o">>

hn == <<"#", "#", "h", "n">>

Smith == <<"S", "m", "i", "t", "h">>

TokenChoices == {Jo, hn, Smith}

OffsetChoices == {0, 2, 5, 8}

ClearText == <<"J", "o", "h", "n", " ", " ", " ", " ", "S", "m", "i", "t", "h">>

Increasing(s) == \A i \in 1..(Len(s) - 1) : s[i] < s[i + 1]

\* The call for one tokenized sample (equal-length tokens / offsets /
\* start_of_word).  The features carry the sample's start_of_word flags as
\* initial_mask, and the logits of token i carry the confidence i, so that a
\* confidence names the token it belongs to.
TokenCall(t, o, w, a) ==
    [logits |-> <<[i \in 1..Len(t) |-> [argmax |-> a[i], maxprob |-> i]]>>,
     label_map |-> LabelMapNER,
     initial_mask |-> <<w>>,
     samples |-> <<[clear_text |-> [text |-> ClearText],
                    tokenized |-> [tokens |-> t, offsets |-> o, start_of_word |-> w]]>>]

Registry == {"TextClassificationHead", "TokenClassificationHead",
             "BertLMHead", "QuestionAnsweringHead"}

NoHead == [name |-> "None"]

Idle == /\ subclasses = Registry
        /\ head = NoHead
        /\ disk = {}

Return(r, m) == /\ pc' = "done"
                /\ ret' = r
                /\ mem' = m
                /\ UNCHANGED <<op, args, subclasses, head, disk>>

InitToken ==
    /\ pc = "call"
    /\ ret = Pending
    /\ \/ op = "initial_token_only"
          /\ args \in {[seq |-> s, initial_mask |-> m] :
                          s \in SeqChoices, m \in SeqsUpTo(BOOLEAN, MaxLen)}
       \/ op = "TokenClassificationHead.formatted_preds"
          /\ \E k \in 0..MaxTokens :
                \E t \in [1..k -> TokenChoices],
                   o \in {x \in [1..k -> OffsetChoices] : Increasing(x)},
                   w \in [1..k -> BOOLEAN],
                   a \in [1..k -> DOMAIN LabelMapNER] :
                    args = TokenCall(t, o, w, a)
    /\ mem = args
    /\ Idle

CallInitialTokenOnly ==
    /\ pc = "call"
    /\ op = "initial_token_only"
    /\ Return(Ok(initial_token_only(args.seq, args.initial_mask)), args)

CallTokenFormattedPreds ==
    /\ pc = "call"
    /\ op = "TokenClassificationHead.formatted_preds"
    /\ Return(TokenFormattedPreds(args.logits, args.label_map,
                                  args.initial_mask, args.samples), args)

NextToken == CallInitialTokenOnly \/ CallTokenFormattedPreds

SpecToken == InitToken /\ [][NextToken]_vars

(***************************************************************************)
(* Properties of the token-classification head.                            *)
(***************************************************************************)
TrueAt(mask) == {i \in 1..Len(mask) : mask[i]}

\* the position of the k-th true entry of mask
KthTrue(mask, k) ==
    CHOOSE i \in TrueAt(mask) : Cardinality({j \in TrueAt(mask) : j < i}) = k - 1

FilterDone == pc = "done" /\ op = "initial_token_only"

TokenDone == pc = "done" /\ op = "TokenClassificationHead.formatted_preds"

\* C1: for a seq and a mask of the same length, initial_token_only returns the
\* elements of seq at the true positions of the mask, in their original order:
\* as many elements as the mask has true entries, the k-th being seq at the
\* k-th true position.
C1_InitialTokenOnly ==
    (FilterDone /\ Len(args.seq) = Len(args.initial_mask)) =>
        /\ ret.error = "none"
        /\ Len(ret.value) = Cardinality(TrueAt(args.initial_mask))
        /\ \A k \in 1..Len(ret.value) :
               ret.value[k] = args.seq[KthTrue(args.initial_mask, k)]

\* C1 witness: [a,b,c,d,e] under [true,false,true,true,false] has given [a,c,d]
C1_Witness ==
    /\ FilterDone
    /\ args.seq = <<"a", "b", "c", "d", "e">>
    /\ args.initial_mask = <<TRUE, FALSE, TRUE, TRUE, FALSE>>
    /\ ret.value = <<"a", "c", "d">>

\* C2: span reconstruction gives every sample, the empty one and the one that
\* starts with a continuation subword included, exactly one span per true
\* word-initial flag, the k-th span opening at the k-th word-initial token.
C2_OneSpanPerWord ==
    TokenDone =>
        /\ ret.error = "none"
        /\ \A b \in 1..Len(args.samples) :
             LET flags == args.samples[b].tokenized.start_of_word
                 spans == ret.locals.spans[b]
             IN /\ Len(spans) = Cardinality(TrueAt(flags))
                /\ \A k \in 1..Len(spans) :
                     /\ ~spans[k].isNone
                     /\ spans[k].start =
                            args.samples[b].tokenized.offsets[KthTrue(flags, k)]

JohnSmithCall ==
    /\ TokenDone
    /\ args.samples[1].tokenized.tokens = <<Jo, hn, Smith>>
    /\ args.samples[1].tokenized.offsets = <<0, 2, 8>>
    /\ args.samples[1].tokenized.start_of_word = <<TRUE, FALSE, TRUE>>

\* the last token of the word that opens at token i
WordEnd(flags, i) ==
    CHOOSE j \in i..Len(flags) :
        /\ \A m \in (i + 1)..j : ~flags[m]
        /\ (j = Len(flags) \/ flags[j + 1])

\* C3 (amended): ["Jo","##hn","Smith"] at offsets [0,2,8] with flags
\* [true,false,true] gives the spans [{0,4},{8,13}]; in every sample that opens
\* with a word-initial token, a word's span starts at the offset of its
\* word-initial token and ends at offset + len(token) of its last token, the
\* continuation marker "##" of a continuation token not counted.
C3_SpanRule ==
    /\ JohnSmithCall => ret.locals.spans[1] = <<MkSpan(0, 4), MkSpan(8, 13)>>
    /\ (TokenDone /\ ret.error = "none") =>
         \A b \in 1..Len(args.samples) :
           LET tk == args.samples[b].tokenized
               spans == ret.locals.spans[b]
           IN (tk.tokens # <<>>) =>
                \A k \in 1..Cardinality(TrueAt(tk.start_of_word)) :
                  LET i == KthTrue(tk.start_of_word, k)
                      j == WordEnd(tk.start_of_word, i)
                  IN /\ spans[k].start = tk.offsets[i]
                     /\ spans[k].end = tk.offsets[j] +
                            (IF j = i THEN Len(tk.tokens[j])
                             ELSE Len(SelectSeq(tk.tokens[j], LAMBDA c : c # "#")))

\* C3 witness: the John Smith sample has been formatted
C3_Witness == JohnSmithCall /\ ret.error = "none" /\ Len(ret.locals.spans[1]) = 2

\* C3 as stated: the John Smith sample gives the spans [{0,7},{8,13}]
C3_AsStated ==
    JohnSmithCall => ret.locals.spans[1] = <<MkSpan(0, 7), MkSpan(8, 13)>>

(***************************************************************************)
(* QuestionAnsweringHead                                                   *)
(***************************************************************************)
\* numpy.argmax of one row: the 0-based index of the first largest entry
NpArgmax(row) ==
    (CHOOSE i \in 1..Len(row) :
        /\ \A j \in 1..Len(row) : row[j] <= row[i]
        /\ \A j \in 1..(i - 1) : row[j] < row[i]) - 1

\* np.argmax(segment_ids > 0, axis=1) for one row
Shift(segment_row) ==
    NpArgmax([i \in 1..Len(segment_row) |-> IF segment_row[i] > 0 THEN 1 ELSE 0])

\* A shift that keeps the negative results.
ShiftIndexUnclamped(idx, shift) == idx - shift

\* idx - shifts, then idx[idx < 0] = 0
ShiftIndex(idx, shift) == IF idx - shift < 0 THEN 0 ELSE idx - shift

\* An end offset read at the end token itself instead of the slice end.
QAOffsetsAtEndToken(offsets, start, end) ==
    IF ~IndexOk(offsets, start) \/ ~IndexOk(offsets, end - 1) THEN Raise("IndexError")
    ELSE Ok([start |-> Index(offsets, start), end |-> Index(offsets, end - 1)])

\* sample.tokenized["offsets"][start_idx[i]] and [end_idx[i]]: the names
\* start_idx / end_idx are by now bound to the shifted start and the slice end
QAOffsets(offsets, start, end) ==
    IF ~IndexOk(offsets, start) \/ ~IndexOk(offsets, end) THEN Raise("IndexError")
    ELSE Ok([start |-> Index(offsets, start), end |-> Index(offsets, end)])

\* the answer string: join of tokens[start:end] with the markers removed
QAAnswer(tokens, start, end) ==
    StrRemove(StrRemove(JoinSpace(Slice(tokens, start, end)), <<" ", "#", "#">>),
              <<"#", "#">>)

\* QuestionAnsweringHead.logits_to_preds: argmax of the start and of the end
\* logits of every sample; the logits of a sample are the record of its two rows
QALogitsToPreds(logits) ==
    [start_idx |-> [b \in 1..Len(logits) |-> NpArgmax(logits[b].start_logits)],
     end_idx |-> [b \in 1..Len(logits) |-> NpArgmax(logits[b].end_logits)]]

\* QuestionAnsweringHead.formatted_preds(logits, samples, segment_ids)
QAFormattedPreds(logits, samples, segment_ids) ==
    LET raw == QALogitsToPreds(logits)
        B == Len(segment_ids)
        shifts == [b \in 1..B |-> Shift(segment_ids[b])]
        start_idx == [b \in 1..B |-> ShiftIndex(raw.start_idx[b], shifts[b])]
        end_idx == [b \in 1..B |-> ShiftIndex(raw.end_idx[b], shifts[b]) + 1]
        locals == [raw |-> raw, shifts |-> shifts,
                   start_idx |-> start_idx, end_idx |-> end_idx]
        off == [i \in 1..Min(Len(samples), B) |->
                   QAOffsets(samples[i].tokenized.offsets, start_idx[i], end_idx[i])]
    IN IF Len(samples) > B \/ \E i \in DOMAIN off : off[i].error # "none"
       THEN RaiseL("IndexError", locals)
       ELSE OkL([task |-> "qa",
                 predictions |->
                    [i \in 1..Len(samples) |->
                        [start |-> off[i].value.start,
                         end |-> off[i].value.end,
                         context |-> samples[i].clear_text.question_text,
                         label |-> QAAnswer(samples[i].tokenized.tokens,
                                            start_idx[i], end_idx[i]),
                         probability |-> "unkown"]]],
                locals)

MaxOf(row) == CHOOSE m \in Range(row) : \A x \in Range(row) : x <= m

\* CrossEntropyLoss(reduction="none", ignore_index=...) at one position: 0 for
\* the ignored target, else -log softmax(row)[target] = logsumexp(row) -
\* row[target].  logsumexp lies in (max(row), max(row) + log n]; the model takes
\* the integer max(row) + 1 in its place, so the value is positive and falls as
\* the target's logit rises.  target is 0-based.
CrossEntropy(row, target, ignore_index) ==
    IF target = ignore_index THEN 0 ELSE MaxOf(row) + 1 - row[target + 1]

\* the targets CrossEntropyLoss accepts; any other target raises IndexError
TargetOk(row, target, ignore_index) ==
    target = ignore_index \/ target \in 0..(Len(row) - 1)

\* A clamp that sends every out-of-range position to the upper end.
ClampToSentinel(x, lo, hi) == IF x < lo \/ x > hi THEN hi ELSE x

\* tensor.clamp_(lo, hi) of one entry
Clamp(x, lo, hi) == IF x < lo THEN lo ELSE IF x > hi THEN hi ELSE x

\* QuestionAnsweringHead.logits_to_loss(logits, start_position, end_position).
\* A position tensor is [dims |-> 1 or 2, data |-> one entry per sample]: shape
\* [batch] or [batch, 1]; squeeze(-1) of the latter is a view of the same data.
\* clamp_ works in place, so the caller's tensors hold the clamped entries
\* afterwards (after).  A loss is the fraction num / den.
QALogitsToLoss(logits, start_position, end_position) ==
    LET B == Len(logits)
        ignored_index == Len(logits[1].start_logits)
        start == [b \in 1..Len(start_position.data) |->
                     Clamp(start_position.data[b], 0, ignored_index)]
        end == [b \in 1..Len(end_position.data) |->
                   Clamp(end_position.data[b], 0, ignored_index)]
        after == [start_position |-> [start_position EXCEPT !.data = start],
                  end_position |-> [end_position EXCEPT !.data = end]]
        start_loss == [b \in 1..B |->
                          CrossEntropy(logits[b].start_logits, start[b], ignored_index)]
        end_loss == [b \in 1..B |->
                        CrossEntropy(logits[b].end_logits, end[b], ignored_index)]
    IN IF Len(start) # B \/ Len(end) # B THEN RaiseL("ValueError", [after |-> after])
       ELSE IF \E b \in 1..B :
                 \/ ~TargetOk(logits[b].start_logits, start[b], ignored_index)
                 \/ ~TargetOk(logits[b].end_logits, end[b], ignored_index)
       THEN RaiseL("IndexError", [after |-> after])
       ELSE OkL([b \in 1..B |-> [num |-> start_loss[b] + end_loss[b], den |-> 2]],
                [start_loss |-> start_loss, end_loss |-> end_loss, after |-> after])

(***************************************************************************)
(* Calls of the question-answering head.                                   *)
(***************************************************************************)
OneHot(n, hot) == [i \in 1..n |-> IF i = hot THEN 1 ELSE 0]

ContextTokens == <<Jo, hn, Smith, <<"s", "a", "w">>, <<"i", "t">>>>

ContextOffsets == <<0, 2, 5, 11, 15>>

QuestionText == <<"w", "h", "o">>

\* the sample whose context was cut to its first n tokens
QASample(n) ==
    [clear_text |-> [question_text |-> QuestionText,
                     doc_tokens |-> <<<<"J", "o", "h", "n">>, Smith,
                                     <<"s", "a", "w">>, <<"i", "t">>>>],
     tokenized |-> [tokens |-> SubSeq(ContextTokens, 1, n),
                    offsets |-> SubSeq(ContextOffsets, 1, n)]]

QALossBatchSizes == {1, 2}

PositionChoices == (0 - 1)..(QALossLen + 1)

InitQA ==
    /\ pc = "call"
    /\ ret = Pending
    /\ \/ /\ op = "QuestionAnsweringHead.formatted_preds"
          /\ \E n \in 1..Len(ContextTokens), s \in 1..QASeqLen, e \in 1..QASeqLen,
                seg \in [1..QASeqLen -> {0, 1}] :
               args = [logits |-> <<[start_logits |-> OneHot(QASeqLen, s),
                                     end_logits |-> OneHot(QASeqLen, e)]>>,
                       samples |-> <<QASample(n)>>,
                       segment_ids |-> <<seg>>]
       \/ /\ op = "QuestionAnsweringHead.logits_to_loss"
          /\ \E B \in QALossBatchSizes, dims \in {1, 2} :
               \E s \in [1..B -> 1..QALossLen], e \in [1..B -> 1..QALossLen],
                  sp \in [1..B -> PositionChoices], ep \in [1..B -> PositionChoices] :
                 args = [logits |-> [b \in 1..B |->
                                        [start_logits |-> OneHot(QALossLen, s[b]),
                                         end_logits |-> OneHot(QALossLen, e[b])]],
                         start_position |-> [dims |-> dims, data |-> sp],
                         end_position |-> [dims |-> dims, data |-> ep]]
    /\ mem = args
    /\ Idle

CallQAFormattedPreds ==
    /\ pc = "call"
    /\ op = "QuestionAnsweringHead.formatted_preds"
    /\ Return(QAFormattedPreds(args.logits, args.samples, args.segment_ids), args)

CallQALogitsToLoss ==
    /\ pc = "call"
    /\ op = "QuestionAnsweringHead.logits_to_loss"
    /\ LET r == QALogitsToLoss(args.logits, args.start_position, args.end_position)
       IN Return(r, [args EXCEPT !.start_position = r.locals.after.start_position,
                                 !.end_position = r.locals.after.end_position])

NextQA == CallQAFormattedPreds \/ CallQALogitsToLoss

SpecQA == InitQA /\ [][NextQA]_vars

(***************************************************************************)
(* Properties of the question-answering head.                              *)
(***************************************************************************)
QADone == pc = "done" /\ op = "QuestionAnsweringHead.formatted_preds"

QALossDone == pc = "done" /\ op = "QuestionAnsweringHead.logits_to_loss"

\* the raw prediction of a one-hot row: the 0-based index of its 1
HotIndex(row) == (CHOOSE i \in 1..Len(row) : row[i] = 1) - 1

\* the 0-based index of the first token with a nonzero segment marker (0 if none)
FirstContext(seg) ==
    IF \A i \in 1..Len(seg) : seg[i] = 0 THEN 0
    ELSE (CHOOSE i \in 1..Len(seg) : seg[i] # 0 /\ \A j \in 1..(i - 1) : seg[j] = 0) - 1

RawStart(b) == HotIndex(args.logits[b].start_logits)

RawEnd(b) == HotIndex(args.logits[b].end_logits)

ShiftedStart(b) == Max(0, RawStart(b) - FirstContext(args.segment_ids[b]))

ShiftedEnd(b) == Max(0, RawEnd(b) - FirstContext(args.segment_ids[b]))

\* C4: the start and end index are the raw predictions minus the index of the
\* first token with a nonzero segment marker, negative results becoming 0, and
\* the end index is then advanced by one: markers [0,0,0,1,1,1,1] with raw
\* start 4 and end 5 give start 1 and slice end 3 (shifted end 2); the shifted
\* start is always >= 0 and the slice end always >= 1.
C4_OffsetShift ==
    QADone =>
        \A b \in 1..Len(args.segment_ids) :
            /\ ret.locals.start_idx[b] = ShiftedStart(b)
            /\ ret.locals.end_idx[b] = ShiftedEnd(b) + 1
            /\ ret.locals.start_idx[b] >= 0
            /\ ret.locals.end_idx[b] >= 1
            /\ (args.segment_ids[b] = <<0, 0, 0, 1, 1, 1, 1>>
                  /\ RawStart(b) = 4 /\ RawEnd(b) = 5)
               => (ret.locals.start_idx[b] = 1 /\ ret.locals.end_idx[b] = 3)

\* C4 witness: the call with markers [0,0,0,1,1,1,1], start 4 and end 5 is done
C4_Witness ==
    /\ QADone
    /\ args.segment_ids[1] = <<0, 0, 0, 1, 1, 1, 1>>
    /\ RawStart(1) = 4
    /\ RawEnd(1) = 5
    /\ ret.locals.end_idx[1] = 3

\* C5 (amended): the character offsets of a record are looked up with the same
\* shifted, clamped indices that slice the answer text: start is the offset of
\* the token at the shifted start, end the offset of the token at the slice
\* end (shifted end + 1), and the answer joins the tokens from the shifted
\* start up to the slice end; the call raises IndexError exactly when one of
\* the two indices lies past the sample's offset table.
C5_OffsetsUseShifted ==
    QADone =>
        LET tk == args.samples[1].tokenized
            inside == ShiftedStart(1) < Len(tk.offsets)
                      /\ ShiftedEnd(1) + 1 < Len(tk.offsets)
        IN /\ ret.error = (IF inside THEN "none" ELSE "IndexError")
           /\ inside =>
                /\ ret.value.predictions[1].start = tk.offsets[ShiftedStart(1) + 1]
                /\ ret.value.predictions[1].end = tk.offsets[ShiftedEnd(1) + 2]
                /\ ret.value.predictions[1].label =
                       QAAnswer(tk.tokens, ShiftedStart(1), ShiftedEnd(1) + 1)

\* C5 witness: a record was built where the shift moved the start index
C5_Witness ==
    /\ QADone
    /\ ret.error = "none"
    /\ RawStart(1) # ShiftedStart(1)
    /\ ShiftedStart(1) > 0
    /\ ret.value.predictions[1].start =
           args.samples[1].tokenized.offsets[ShiftedStart(1) + 1]

\* C5 as stated: the offsets of a record are looked up with the unshifted
\* predicted indices (the end at the raw end index or at the one after it)
C5_AsStated ==
    (QADone /\ ret.error = "none") =>
        LET tk == args.samples[1].tokenized
        IN /\ RawStart(1) < Len(tk.offsets)
           /\ RawEnd(1) < Len(tk.offsets)
           /\ ret.value.predictions[1].start = tk.offsets[RawStart(1) + 1]
           /\ \/ ret.value.predictions[1].end = tk.offsets[RawEnd(1) + 1]
              \/ /\ RawEnd(1) + 1 < Len(tk.offsets)
                 /\ ret.value.predictions[1].end = tk.offsets[RawEnd(1) + 2]

\* the loss one position must contribute under the amended C6
ExpectedLoss(row, position) ==
    IF position >= Len(row) THEN 0
    ELSE IF position < 0 THEN CrossEntropy(row, 0, Len(row))
    ELSE CrossEntropy(row, position, Len(row))

Vocabulary == <<"[PAD]", "the">>

\* label_map of the masked-token task: vocabulary id (0-based) -> token
LabelMapLM == [i \in 0..(Len(Vocabulary) - 1) |-> Vocabulary[i + 1]]

\* masked_lm_loss.view(-1, batch_size), read by column: the flat tensor is cut
\* into rows of batch_size entries, and column c holds entry c of every row
ViewColumns(flat, batch_size) ==
    LET rows == Len(flat) \div batch_size
    IN [c \in 1..batch_size |-> [r \in 1..rows |-> flat[(r - 1) * batch_size + c]]]

\* BertLMHead.logits_to_loss(logits, lm_label_ids): the flat per-position loss
\* (sample after sample), viewed as [-1, batch_size], mean over dim 0
BertLMLogitsToLoss(logits, lm_label_ids) ==
    LET batch_size == Len(lm_label_ids)
        flat_logits == Concat(logits)
        flat_labels == Concat(lm_label_ids)
        masked_lm_loss == [i \in 1..Len(flat_logits) |->
                              CrossEntropy(flat_logits[i], flat_labels[i], 0 - 1)]
        columns == ViewColumns(masked_lm_loss, batch_size)
    IN IF Len(flat_logits) # Len(flat_labels) THEN Raise("ValueError")
       ELSE IF \E i \in 1..Len(flat_logits) :
                 ~TargetOk(flat_logits[i], flat_labels[i], 0 - 1)
       THEN Raise("IndexError")
       ELSE OkL([c \in 1..batch_size |->
                    [num |-> SumSeq(columns[c]), den |-> Len(columns[c])]],
                [masked_lm_loss |-> masked_lm_loss])

Shape(m) == [b \in 1..Len(m) |-> Len(m[b])]

\* the x of one sequence that are not -1, label_map applied
MapKept(ids, label_map) ==
    LET kept == SelectSeq(ids, LAMBDA x : x # 0 - 1)
    IN [k \in 1..Len(kept) |-> label_map[kept[k]]]

\* A prediction list that keeps the positions of the sentinel labels.
BertLMLogitsToPredsUnmasked(logits, label_map, lm_label_ids) ==
    LET lm_preds_ids == [b \in 1..Len(logits) |->
                            [t \in 1..Len(logits[b]) |-> NpArgmax(logits[b][t])]]
    IN Ok([b \in 1..Len(lm_preds_ids) |-> MapKept(lm_preds_ids[b], label_map)])

\* BertLMHead.logits_to_preds(logits, label_map, lm_label_ids)
BertLMLogitsToPreds(logits, label_map, lm_label_ids) ==
    LET lm_preds_ids == [b \in 1..Len(logits) |->
                            [t \in 1..Len(logits[b]) |-> NpArgmax(logits[b][t])]]
        masked == [b \in 1..Len(lm_preds_ids) |->
                      [t \in 1..Len(lm_preds_ids[b]) |->
                          IF lm_label_ids[b][t] = 0 - 1 THEN 0 - 1
                          ELSE lm_preds_ids[b][t]]]
    IN IF Shape(lm_preds_ids) # Shape(lm_label_ids) THEN Raise("AssertionError")
       ELSE Ok([b \in 1..Len(masked) |-> MapKept(masked[b], label_map)])

\* BertLMHead.prepare_labels(label_map, lm_label_ids)
BertLMPrepareLabels(label_map, lm_label_ids) ==
    Ok([b \in 1..Len(lm_label_ids) |-> MapKept(lm_label_ids[b], label_map)])

(***************************************************************************)
(* Calls of the masked-token head.                                         *)
(***************************************************************************)
\* self.num_labels: the rows of the embedding matrix
VocabSize == Len(Vocabulary)

\* The logits of a batch: the row of position t of sample b is one-hot over the
\* vocabulary, its hot entry moving with b, t and the pattern chosen.
LMLogits(B, S, pattern) ==
    [b \in 1..B |-> [t \in 1..S |->
        OneHot(VocabSize, ((b * pattern + t) % VocabSize) + 1)]]

LMOps == {"BertLMHead.logits_to_loss", "BertLMHead.logits_to_preds",
          "BertLMHead.prepare_labels"}

InitLM ==
    /\ pc = "call"
    /\ ret = Pending
    /\ op \in LMOps
    /\ \E B \in 1..MaxBatch, S \in 1..MaxSeqLen, pattern \in {1, 2} :
         \E labels \in [1..B -> [1..S -> (0 - 1)..(VocabSize - 1)]] :
           args = [logits |-> LMLogits(B, S, pattern),
                   label_map |-> LabelMapLM,
                   lm_label_ids |-> labels]
    /\ mem = args
    /\ Idle

CallBertLMLogitsToLoss ==
    /\ pc = "call"
    /\ op = "BertLMHead.logits_to_loss"
    /\ Return(BertLMLogitsToLoss(args.logits, args.lm_label_ids), args)

CallBertLMLogitsToPreds ==
    /\ pc = "call"
    /\ op = "BertLMHead.logits_to_preds"
    /\ Return(BertLMLogitsToPreds(args.logits, args.label_map, args.lm_label_ids), args)

CallBertLMPrepareLabels ==
    /\ pc = "call"
    /\ op = "BertLMHead.prepare_labels"
    /\ Return(BertLMPrepareLabels(args.label_map, args.lm_label_ids), args)

NextLM == CallBertLMLogitsToLoss \/ CallBertLMLogitsToPreds \/ CallBertLMPrepareLabels

SpecLM == InitLM /\ [][NextLM]_vars

(***************************************************************************)
(* Properties of the masked-token head.                                    *)
(***************************************************************************)
LMLossDone == pc = "done" /\ op = "BertLMHead.logits_to_loss"

LMPredsDone == pc = "done" /\ op = "BertLMHead.logits_to_preds"

LMLabelsDone == pc = "done" /\ op = "BertLMHead.prepare_labels"

\* the positions of sequence b whose label is not the sentinel, in order
Unmasked(b) ==
    SelectSeq([t \in 1..Len(args.lm_label_ids[b]) |-> t],
              LAMBDA t : args.lm_label_ids[b][t] # 0 - 1)

\* the loss of position t of sample b
PositionLoss(b, t) ==
    IF args.lm_label_ids[b][t] = 0 - 1 THEN 0
    ELSE CrossEntropy(args.logits[b][t], args.lm_label_ids[b][t], 0 - 1)

\* C7: logits_to_loss gives one value per sample, element j being the sum of
\* sample j's own per-position losses (0 at a sentinel label) divided by the
\* full seq_len, whatever the batch size.
C7_PerSampleLoss ==
    LMLossDone =>
        /\ ret.error = "none"
        /\ Len(ret.value) = Len(args.lm_label_ids)
        /\ \A j \in 1..Len(args.lm_label_ids) :
             LET S == Len(args.lm_label_ids[j])
             IN /\ ret.value[j].den = S
                /\ ret.value[j].num = SumSeq([t \in 1..S |-> PositionLoss(j, t)])

\* C8: logits_to_preds and prepare_labels drop the sentinel positions without
\* raising: the prediction list of a sequence holds the mapped argmax id of
\* exactly the positions whose label is not -1, in order, and so is as long as
\* the label list prepare_labels returns for that sequence.
C8_SentinelDropped ==
    /\ LMPredsDone =>
         /\ ret.error = "none"
         /\ Len(ret.value) = Len(args.lm_label_ids)
         /\ \A b \in 1..Len(args.lm_label_ids) :
              /\ Len(ret.value[b]) = Len(Unmasked(b))
              /\ \A k \in 1..Len(ret.value[b]) :
                   ret.value[b][k] =
                       args.label_map[HotIndex(args.logits[b][Unmasked(b)[k]])]
              /\ Len(ret.value[b]) =
                     Len(BertLMPrepareLabels(args.label_map, args.lm_label_ids).value[b])
    /\ LMLabelsDone =>
         /\ ret.error = "none"
         /\ Len(ret.value) = Len(args.lm_label_ids)
         /\ \A b \in 1..Len(args.lm_label_ids) :
              /\ Len(ret.value[b]) = Len(Unmasked(b))
              /\ \A k \in 1..Len(ret.value[b]) :
                   ret.value[b][k] = args.label_map[args.lm_label_ids[b][Unmasked(b)[k]]]

\* C8 witness: predictions were produced for a sequence that has a sentinel
\* label and a real one
C8_Witness ==
    /\ LMPredsDone
    /\ ret.error = "none"
    /\ \E b \in 1..Len(args.lm_label_ids) :
         /\ \E t \in 1..Len(args.lm_label_ids[b]) : args.lm_label_ids[b][t] = 0 - 1
         /\ Len(ret.value[b]) >= 1
         /\ Len(ret.value[b]) < Len(args.lm_label_ids[b])

(***************************************************************************)
(* PredictionHead: registry, factory, save and load                        *)
(*                                                                         *)
(* subclasses is the registry __init_subclass__ has filled by the time the *)
(* module is imported.  head is the head object the caller holds.  disk    *)
(* is the save directory: a set of files [kind, num, name], kind "weights" *)
(* for prediction_head_{num}.bin and "config" for                          *)
(* prediction_head_{num}_config.json, name the class that wrote it (for a  *)
(* config: its "name" entry).                                              *)
(***************************************************************************)
LayerDims == <<4, 2>>

MkHead(name) == [name |-> name]

File(kind, num, name) == [kind |-> kind, num |-> num, name |-> name]

FilesAt(d, kind, num) == {f \in d : f.kind = kind /\ f.num = num}

\* open(path, "w") and write: the file at that path is replaced
WriteFile(d, kind, num, name) == (d \ FilesAt(d, kind, num)) \cup {File(kind, num, name)}

\* cls(layer_dims=..., class_weights=...) as create calls it, and cls(**config)
\* as load calls it: BertLMHead.__init__ requires embeddings and hidden_size,
\* which neither passes
ConstructByKeywords(name) ==
    IF name = "BertLMHead" THEN Raise("TypeError") ELSE Ok(MkHead(name))

\* PredictionHead.create(prediction_head_name, layer_dims, class_weights)
Create(registry, prediction_head_name) ==
    IF prediction_head_name \notin registry THEN RaiseL("KeyError", [constructed |-> FALSE])
    ELSE LET h == ConstructByKeywords(prediction_head_name)
         IN [h EXCEPT !.locals = [constructed |-> TRUE]]

\* head.save(save_dir, head_num): PredictionHead.save writes the weights, then
\* the config; BertLMHead.save writes the config alone
Save(h, d, head_num) ==
    IF h.name = "BertLMHead"
    THEN [disk |-> WriteFile(d, "config", head_num, h.name),
          written |-> {"config"}]
    ELSE [disk |-> WriteFile(WriteFile(d, "weights", head_num, h.name),
                             "config", head_num, h.name),
          written |-> {"weights", "config"}]

\* PredictionHead.load(model_file, config_file, device), reached through any
\* class that does not override it
LoadBase(registry, d, model_num, config_num) ==
    IF FilesAt(d, "config", config_num) = {}
    THEN RaiseL("FileNotFoundError", [constructed |-> FALSE])
    ELSE LET config == CHOOSE f \in FilesAt(d, "config", config_num) : TRUE
         IN IF config.name \notin registry
            THEN RaiseL("KeyError", [constructed |-> FALSE])
            ELSE LET h == ConstructByKeywords(config.name)
                 IN IF h.error # "none" THEN [h EXCEPT !.locals = [constructed |-> TRUE]]
                    ELSE IF FilesAt(d, "weights", model_num) = {}
                    THEN RaiseL("FileNotFoundError", [constructed |-> TRUE])
                    ELSE [h EXCEPT !.locals = [constructed |-> TRUE]]

\* cls.load(model_file, config_file[, device]): BertLMHead overrides load with
\* the two parameters model_file and config_file, so a call that also passes
\* device does not reach its body
Load(cls, registry, d, model_num, config_num, with_device) ==
    IF cls = "BertLMHead"
    THEN IF with_device THEN RaiseL("TypeError", [constructed |-> FALSE])
         ELSE RaiseL("NotImplementedError", [constructed |-> FALSE])
    ELSE IF with_device THEN LoadBase(registry, d, model_num, config_num)
    ELSE RaiseL("TypeError", [constructed |-> FALSE])

(***************************************************************************)
(* Calls of the factory, save and load.                                    *)
(***************************************************************************)
HeadNums == 0..MaxHeadNum

\* names a caller may ask for: the registered heads, a class of the module
\* that is no PredictionHead, and a name no class has
NameChoices == Registry \cup {"FeedForwardBlock", "LegacyHead"}

\* the classes load can be called on
LoadClasses == Registry \cup {"PredictionHead"}

InitPersist ==
    /\ pc = "done"
    /\ op = "import"
    /\ args = <<>>
    /\ mem = <<>>
    /\ ret = Ok(<<>>)
    /\ subclasses = Registry
    /\ head = NoHead
    /\ \E num \in HeadNums : disk \in {{}, {File("config", num, "LegacyHead")}}

CallCreate ==
    \E name \in NameChoices :
        LET r == Create(subclasses, name)
        IN /\ op' = "PredictionHead.create"
           /\ args' = [prediction_head_name |-> name, layer_dims |-> LayerDims,
                       class_weights |-> "None"]
           /\ mem' = args'
           /\ ret' = r
           /\ head' = IF r.error = "none" THEN r.value ELSE head
           /\ UNCHANGED <<pc, subclasses, disk>>

\* BertLMHead(embeddings, hidden_size): the one way to build this head
CallConstructBertLMHead ==
    /\ op' = "BertLMHead.__init__"
    /\ args' = [embeddings |-> "embeddings", hidden_size |-> LayerDims[1]]
    /\ mem' = args'
    /\ ret' = OkL(MkHead("BertLMHead"), [constructed |-> TRUE])
    /\ head' = MkHead("BertLMHead")
    /\ UNCHANGED <<pc, subclasses, disk>>

CallSave ==
    /\ head # NoHead
    /\ \E num \in HeadNums :
        LET r == Save(head, disk, num)
        IN /\ op' = "save"
           /\ args' = [self |-> head, head_num |-> num]
           /\ mem' = args'
           /\ ret' = OkL("None", [written |-> r.written])
           /\ disk' = r.disk
           /\ UNCHANGED <<pc, subclasses, head>>

CallLoad ==
    \E cls \in LoadClasses, model_num \in HeadNums, config_num \in HeadNums,
       with_device \in BOOLEAN :
        LET r == Load(cls, subclasses, disk, model_num, config_num, with_device)
        IN /\ op' = "load"
           /\ args' = [cls |-> cls, model_file |-> model_num, config_file |-> config_num,
                       with_device |-> with_device,
                       config_name |->
                           {f.name : f \in FilesAt(disk, "config", config_num)}]
           /\ mem' = args'
           /\ ret' = r
           /\ head' = IF r.error = "none" THEN r.value ELSE head
           /\ UNCHANGED <<pc, subclasses, disk>>

NextPersist == CallCreate \/ CallConstructBertLMHead \/ CallSave \/ CallLoad

SpecPersist == InitPersist /\ [][NextPersist]_vars

(***************************************************************************)
(* Properties of the factory, save and load.                               *)
(***************************************************************************)
\* C9: save of the masked-token head writes the config artifact and no weights
\* artifact, and every load(weightsPath, configPath, device) that targets the
\* masked-token head (called on BertLMHead, or on a config that names it)
\* fails with NotImplementedError and no other error.
C9_MaskedTokenPersistence ==
    /\ (op = "save" /\ args.self.name = "BertLMHead") =>
           ret.locals.written = {"config"}
    /\ (op = "load" /\ args.with_device
          /\ (args.cls = "BertLMHead" \/ args.config_name = {"BertLMHead"})) =>
           ret.error = "NotImplementedError"

\* C10: create returns a head of the named variant for every registered
\* variant and fails with KeyError (the unknown-head-type error) for any other
\* name; load fails with KeyError, constructing no head, when the "name" of
\* the config is not registered.
C10_FactoryLookup ==
    /\ (op = "PredictionHead.create" /\ args.prediction_head_name \in subclasses) =>
           (ret.error = "none" /\ head.name = args.prediction_head_name)
    /\ (op = "PredictionHead.create" /\ args.prediction_head_name \notin subclasses) =>
           ret.error = "KeyError"
    /\ (op = "load" /\ args.with_device /\ args.cls # "BertLMHead"
          /\ args.config_name # {} /\ args.config_name \cap subclasses = {}) =>
           (ret.error = "KeyError" /\ ~ret.locals.constructed)

(***************************************************************************)
(* Properties of the calls as a whole: length mismatches, argument         *)
(* mutation, and the records built after merging.                          *)
(***************************************************************************)
\* C11: a length mismatch between parallel sequences stops the operation with
\* an error instead of building output from the common prefix: seq against
\* initial_mask in initial_token_only, and the merged tags against the per-word
\* probabilities against the merged spans of one sequence in formatted_preds.
C11_MismatchHalts ==
    /\ (FilterDone /\ Len(args.seq) # Len(args.initial_mask)) => ret.error # "none"
    /\ (TokenDone /\ ret.error = "none") =>
         \A b \in 1..Len(ret.locals.merged) :
            /\ Len(ret.locals.merged[b].tags) = Len(ret.locals.probs[b])
            /\ Len(ret.locals.merged[b].spans) = Len(ret.locals.probs[b])

\* C12: no head operation mutates its inputs: when a call has returned, every
\* argument object the caller passed holds the values it held before the call,
\* start_position and end_position of logits_to_loss included.
C12_NoInputMutation ==
    pc = "done" => mem = args

\* C13: every record formatted_preds emits after merging is consistent: the
\* sample has as many records as merged tags, and the k-th record carries the
\* k-th merged span, the substring of the original text at that span as its
\* context, and the confidence of a word whose first token lies inside that
\* span (the confidence of token i is i in the calls of this model).
C13_RecordsConsistent ==
    (TokenDone /\ ret.error = "none" /\ Len(ret.locals.merged) = 1) =>
        LET m == ret.locals.merged[1]
            recs == ret.value.predictions
            tk == args.samples[1].tokenized
            text == args.samples[1].clear_text.text
        IN /\ Len(recs) = Len(m.tags)
           /\ \A k \in 1..Len(recs) :
                /\ recs[k].start = m.spans[k].start
                /\ recs[k].end = m.spans[k].end
                /\ recs[k].context = Slice(text, m.spans[k].start, m.spans[k].end)
                /\ recs[k].probability \in
                     {t \in 1..Len(tk.tokens) :
                        /\ tk.start_of_word[t]
                        /\ m.spans[k].start <= tk.offsets[t]
                        /\ tk.offsets[t] < m.spans[k].end}

====
